---------------------------- MODULE Spec2Model ----------------------------
(***************************************************************************)
(* A model of blindspot (bspm), a package manager for single binaries.     *)
(*                                                                         *)
(*   Spec     the registry and the file system under the commands install, *)
(*            remove, revert and update (src/bspm/mod.rs, installer.rs,    *)
(*            package.rs, cmd.rs); a bulk update runs its worker threads   *)
(*            and the render task step by step.                            *)
(*   SpecUI   the render task and the handles that feed it (ui.rs).        *)
(*   SpecAsk  Context::ask_number (ui.rs).                                 *)
(*   SpecDl   the progress poller of Installer::download (installer.rs).   *)
(***************************************************************************)
EXTENDS Integers, Sequences, FiniteSets, TLC

VARIABLES
    \* ---- Spec: what outlives a process
    config,      \* the registry as saved in the config file (BSPM.packages)
    files,       \* the file system: path -> content, or NoFile
    ncmd,        \* number of commands started; also the clock of Utc::now()
    \* ---- Spec: one process (one command run)
    mainPc,      \* where the main thread is
    packages,    \* BSPM.packages of the running (or last) process
    handles,     \* join handles not yet joined, in spawn order
    wpc,         \* per package name: where its update worker is
    wres,        \* per package name: the result its worker returns
    queue,       \* the stdout channel (label, Message), capacity 1
    apc,         \* the render task: "run", "exiting" (Quit acknowledged,
                 \* receiver not yet dropped), "closed"
    acks,        \* handles whose Quit has been acknowledged
    quitLog,     \* history: who sent Quit in this process, in order
    last,        \* history: what the last finished operation did
    \* ---- SpecUI
    uq,          \* the stdout channel: messages accepted and not yet taken
    uans,        \* the stdin (answer) channel
    upc,         \* where the render task is
    ucur,        \* the message the render task has taken, if any
    uline,       \* the line read_line has read and not yet sent, if any
    uacks,       \* handles whose Quit the render task has acknowledged
    bars,        \* the progress bars: key -> [cur, total]
    hpc,         \* per handle: where its thread is
    hops,        \* per handle: number of messages it has had accepted
    hgot,        \* per handle: what its last ask returned
    accepted,    \* history: messages in the order the channel accepted them
    processed,   \* history: messages in the order the task finished them
    overlap,     \* history: two asks have been pending at the same time
    \* ---- SpecAsk
    anPc, anMin, anMax, anLine, anRet, anAsks, anNotes, anBad,
    \* ---- SpecDl
    dlTotal,     \* download_progress().1: the expected size, 0 if unknown
    dlSize,      \* size of the response body
    dlDone,      \* download_progress().0: bytes transferred so far
    dlCopy,      \* where Installer::download is
    dlPc,        \* where the progresser task is
    dlSent,      \* Progress messages sent, with the sample they came from
    \* ---- SpecGuess
    gPc,          \* where Installer::install is
    gInst,        \* the Installer: url, archive, compression
    gArchive,     \* what guess_archive returned
    gCompression, \* what guess_compression returned
    gArgs         \* --compression and --archive as typed, before parsing

specVars == <<config, files, ncmd, mainPc, packages, handles, wpc, wres,
              queue, apc, acks, quitLog, last>>
uiVars   == <<uq, uans, upc, ucur, uline, uacks, bars, hpc, hops, hgot,
              accepted, processed, overlap>>
askVars  == <<anPc, anMin, anMax, anLine, anRet, anAsks, anNotes, anBad>>
dlVars   == <<dlTotal, dlSize, dlDone, dlCopy, dlPc, dlSent>>
guessVars == <<gPc, gInst, gArchive, gCompression, gArgs>>
vars     == <<specVars, uiVars, askVars, dlVars, guessVars>>

-----------------------------------------------------------------------------
(* Bounds of the model.                                                    *)

\* commands run one after the other
MaxCmds == 3

\* package names the user may choose
Names == {"a", "b"}

\* what a download may deliver (decompressed). Read as a Tar container, every
\* byte is one entry and a 0 byte is the end-of-archive marker.
Payloads == {<<2>>, <<1, 2, 0>>}

\* Option::None, one per type (TLC compares values of one type only)
NoneOpt   == "none_opt"
NoFile    == <<-1>>                                \* no file at a path
NoPath    == <<"none", "">>                        \* backup: None
NoUrl     == [parts |-> 0, ext |-> <<>>]           \* github: None
NoRelease == [kind |-> "none", tag |-> "", at |-> 0]
NoTime    == 0                                     \* last_update: None

-----------------------------------------------------------------------------
(* Paths.  bin_path()/name, data_path()/file_name, temp_dir()/blindspot/   *)
(* file_name.                                                              *)
Bin(n)  == <<"bin", n>>
Data(n) == <<"data", n>>
Tmp(n)  == <<"tmp", n>>
Paths   == {Bin(n) : n \in Names} \cup {Data(n) : n \in Names}
             \cup {Tmp(n) : n \in Names}
FileName(p) == p[2]


-----------------------------------------------------------------------------
(* URLs.  A URL is known by the number of its '/'-separated parts and by   *)
(* the '.'-separated segments that end it: "https://h/t.tar.gz" has 4      *)
(* parts and ends with <<"tar", "gz">>; "owner/repo" has 2 parts.          *)
UrlBin == [parts |-> 4, ext |-> <<>>]
UrlTar == [parts |-> 4, ext |-> <<"tar">>]
UrlTgz == [parts |-> 4, ext |-> <<"tar", "gz">>]
Slug   == [parts |-> 2, ext |-> <<>>]

\* str::ends_with(".s1.s2...")
EndsWith(url, suffix) ==
    /\ Len(url.ext) >= Len(suffix)
    /\ SubSeq(url.ext, Len(url.ext) - Len(suffix) + 1, Len(url.ext)) = suffix

\* Package::install: a URL with exactly two parts names a GitHub repository
IsSlug(url) == url.parts = 2

\* Installer::guess_archive
GuessArchive(inst) ==
    IF inst.archive # NoneOpt THEN inst.archive
    ELSE IF EndsWith(inst.url, <<"tar">>) THEN "Tar"
    ELSE IF EndsWith(inst.url, <<"tar", "gz">>) THEN "Tar"
    ELSE IF EndsWith(inst.url, <<"tgz">>) THEN "Tar"
    ELSE IF EndsWith(inst.url, <<"tar", "bz">>) THEN "Tar"
    ELSE IF EndsWith(inst.url, <<"tar", "bz2">>) THEN "Tar"
    ELSE IF EndsWith(inst.url, <<"tbz">>) THEN "Tar"
    ELSE IF EndsWith(inst.url, <<"tar", "xz">>) THEN "Tar"
    ELSE IF EndsWith(inst.url, <<"txz">>) THEN "Tar"
    ELSE "None"

\* guess_compression with the suffixes of compressed tar files left out
GuessCompressionBare(inst) ==
    IF inst.compression # NoneOpt THEN inst.compression
    ELSE IF EndsWith(inst.url, <<"gz">>) THEN "Gzip"
    ELSE IF EndsWith(inst.url, <<"bz">>) THEN "Bzip2"
    ELSE IF EndsWith(inst.url, <<"bz2">>) THEN "Bzip2"
    ELSE IF EndsWith(inst.url, <<"xz">>) THEN "Xz"
    ELSE "None"

\* Installer::guess_compression
GuessCompression(inst) ==
    IF inst.compression # NoneOpt THEN inst.compression
    ELSE IF EndsWith(inst.url, <<"gz">>) THEN "Gzip"
    ELSE IF EndsWith(inst.url, <<"tgz">>) THEN "Gzip"
    ELSE IF EndsWith(inst.url, <<"bz">>) THEN "Bzip2"
    ELSE IF EndsWith(inst.url, <<"bz2">>) THEN "Bzip2"
    ELSE IF EndsWith(inst.url, <<"tbz">>) THEN "Bzip2"
    ELSE IF EndsWith(inst.url, <<"xz">>) THEN "Xz"
    ELSE IF EndsWith(inst.url, <<"txz">>) THEN "Xz"
    ELSE "None"

-----------------------------------------------------------------------------
(* The file system.                                                        *)

\* Writing `new` from offset 0 into a file opened without truncation
Overlay(old, new) == new \o SubSeq(old, Len(new) + 1, Len(old))

\* async_std::fs::File::open / remove_file fail on a missing file
Exists(fs, p) == fs[p] # NoFile

\* move_exe that leaves a file already at dest as it is
MoveExeKeepsDest(fs, src, dest) ==
    IF ~Exists(fs, src) THEN [ok |-> FALSE, files |-> fs]
    ELSE [ok |-> TRUE,
          files |-> [fs EXCEPT ![dest] = IF Exists(fs, dest) THEN @
                                         ELSE fs[src],
                               ![src] = NoFile]]

\* move_exe with a missing source: copy fails, nothing is changed
MoveExe(fs, src, dest) ==
    IF ~Exists(fs, src) THEN [ok |-> FALSE, files |-> fs]
    ELSE [ok |-> TRUE,
          files |-> [fs EXCEPT ![dest] = fs[src], ![src] = NoFile]]

\* Installer::tmp_file: OpenOptions create + write, no truncate
TmpFile(inst, fs) ==
    LET t == Tmp(FileName(inst.path))
    IN  [fs EXCEPT ![t] = IF @ = NoFile THEN <<>> ELSE @]

\* Installer::download: the body is copied into the tmp file; a transport
\* error ends the copy after in.cut bytes (in.fault = "download").
Download(inst, fs, in) ==
    LET t == Tmp(FileName(inst.path))
    IN  IF in.fault = "download"
        THEN [ok |-> FALSE,
              files |-> [fs EXCEPT
                           ![t] = Overlay(@, SubSeq(in.payload, 1, in.cut))]]
        ELSE [ok |-> TRUE,
              files |-> [fs EXCEPT ![t] = Overlay(@, in.payload)]]

\* async_tar entries(): the entries up to the end-of-archive marker
RECURSIVE TarEntries(_)
TarEntries(bytes) ==
    IF bytes = <<>> \/ Head(bytes) = 0 THEN <<>>
    ELSE <<Head(bytes)>> \o TarEntries(Tail(bytes))

\* the lines install_tar shows for the entries: file_index and the entry
Listing(entries) ==
    [i \in 1..Len(entries) |-> [index |-> i - 1, entry |-> entries[i]]]

\* Archived::install_tar.  st = "noinput": ask_number accepts no index the
\* user gives (in.pick is not in [0, file_index)), the call does not return.
InstallTar(fs, src, dest, in) ==
    LET entries == TarEntries(fs[src])
    IN  IF in.fault = "archive" \/ ~Exists(fs, src)
        THEN [st |-> "err", files |-> fs, listed |-> <<>>]
        ELSE IF in.pick >= Len(entries)
        THEN [st |-> "noinput", files |-> fs, listed |-> Listing(entries)]
        ELSE [st |-> "ok",
              files |-> [fs EXCEPT ![dest] = <<entries[in.pick + 1]>>],
              listed |-> Listing(entries)]

\* Archived::install
ArchivedInstall(archive, fs, src, dest, in) ==
    IF archive = "None"
    THEN LET m == MoveExe(fs, src, dest)
         IN  [st |-> IF m.ok THEN "ok" ELSE "err", files |-> m.files,
              listed |-> <<>>]
    ELSE InstallTar(fs, src, dest, in)

\* Installer::install.  History: `moved` is what was displaced to the
\* backup, NoFile if nothing was; `kind` is the archive kind it went by and
\* `listed` what install_tar showed.
InstallerInstall(inst, fs, in) ==
    LET archive == GuessArchive(inst)
        tmp     == Tmp(FileName(inst.path))
        target  == Data(FileName(inst.path))
        fs1     == TmpFile(inst, fs)
        dl      == Download(inst, fs1, in)
    IN  IF ~dl.ok
        THEN [st |-> "err", inst |-> inst, files |-> dl.files,
              moved |-> NoFile, kind |-> archive, listed |-> <<>>]
        ELSE LET had   == Exists(dl.files, inst.path)
                 mv    == IF had THEN MoveExe(dl.files, inst.path, target)
                          ELSE [ok |-> TRUE, files |-> dl.files]
                 inst2 == IF had THEN [inst EXCEPT !.backup = target]
                          ELSE inst
                 r     == ArchivedInstall(archive, mv.files, tmp,
                                          inst.path, in)
             IN  [st |-> r.st, inst |-> inst2, files |-> r.files,
                  moved |-> IF had THEN dl.files[inst.path] ELSE NoFile,
                  kind |-> archive, listed |-> r.listed]

\* Installer::revert without `self.backup = None`
InstallerRevertKeepsBackup(inst, fs) ==
    IF inst.backup = NoPath
    THEN [ok |-> TRUE, inst |-> inst, files |-> fs]
    ELSE LET m == MoveExe(fs, inst.backup, inst.path)
         IN  [ok |-> m.ok, inst |-> inst, files |-> m.files]

\* Installer::revert
InstallerRevert(inst, fs) ==
    IF inst.backup = NoPath
    THEN [ok |-> TRUE, inst |-> inst, files |-> fs]
    ELSE LET m == MoveExe(fs, inst.backup, inst.path)
         IN  IF m.ok
             THEN [ok |-> TRUE, inst |-> [inst EXCEPT !.backup = NoPath],
                   files |-> m.files]
             ELSE [ok |-> FALSE, inst |-> inst, files |-> fs]

\* async_std::fs::remove_file of a file that is there
RemoveFileKeeps(fs, p) == fs
RemoveFile(fs, p) == [fs EXCEPT ![p] = NoFile]

\* Installer::uninstall
InstallerUninstall(inst, fs) ==
    LET fs1 == IF inst.backup # NoPath
               THEN RemoveFile(fs, inst.backup) ELSE fs
    IN  IF inst.backup # NoPath /\ ~Exists(fs, inst.backup)
        THEN [ok |-> FALSE, files |-> fs]
        ELSE IF ~Exists(fs1, inst.path)
        THEN [ok |-> FALSE, files |-> fs1]
        ELSE [ok |-> TRUE, files |-> RemoveFile(fs1, inst.path)]

-----------------------------------------------------------------------------
(* Packages.                                                               *)

Dated(t)     == [kind |-> "dated", tag |-> "", at |-> t]
Version(tag) == [kind |-> "version", tag |-> tag, at |-> 0]

\* the latest release of the repository, as GitHub answers
Releases ==
    { [tag |-> "v1", assets |-> <<UrlBin>>],
      [tag |-> "v2", assets |-> <<UrlTar, UrlBin>>] }
NoAnswer == [tag |-> "", assets |-> <<>>]     \* the request failed

\* Package::github_dl_url
GithubDlUrl(in) ==
    IF in.apick >= Len(in.gh.assets) THEN [st |-> "noinput", url |-> NoUrl]
    ELSE [st |-> "ok", url |-> in.gh.assets[in.apick + 1]]

\* the Package built by BSPM::install
NewPackage(name, url, archive) ==
    [name |-> name,
     installer |-> [url |-> url, path |-> Bin(name), archive |-> archive,
                    backup |-> NoPath],
     release |-> NoRelease, last_update |-> NoTime, github |-> NoUrl]

\* Package::install or Package::update returns before Installer::install
NotRun(st, pkg, fs) ==
    [st |-> st, pkg |-> pkg, files |-> fs, moved |-> NoFile,
     kind |-> "none", listed |-> <<>>]

\* the package after self.installer.install(&ctx) has returned r
WithInstaller(pkg, r) ==
    [st |-> r.st, pkg |-> [pkg EXCEPT !.installer = r.inst],
     files |-> r.files, moved |-> r.moved, kind |-> r.kind,
     listed |-> r.listed]

\* the tail of Package::install: self.installer.install(&ctx)
RunInstaller(pkg, fs, in) ==
    WithInstaller(pkg, InstallerInstall(pkg.installer, fs, in))

\* Package::install
PackageInstall(pkg, fs, in, now) ==
    IF ~IsSlug(pkg.installer.url)
    THEN RunInstaller([pkg EXCEPT !.release = Dated(now)], fs, in)
    ELSE IF in.gh = NoAnswer
    THEN NotRun("err", pkg, fs)
    ELSE LET dl == GithubDlUrl(in)
         IN  IF dl.st # "ok"
             THEN NotRun(dl.st, pkg, fs)
             ELSE RunInstaller(
                    [pkg EXCEPT !.github = pkg.installer.url,
                                !.installer.url = dl.url,
                                !.release = Version(in.gh.tag)], fs, in)

\* Package::update: latest_release == installed_release
SameReleaseNever(latest, installed) == FALSE
SameRelease(latest, installed) == latest = installed

\* Package::update: works on a clone, returns it
PackageUpdate(pkg, fs, in, now) ==
    IF pkg.github = NoUrl
    THEN LET r == PackageInstall(pkg, fs, in, now)
         IN  [r EXCEPT !.pkg = IF r.st = "ok"
                               THEN [r.pkg EXCEPT !.last_update = now]
                               ELSE r.pkg]
    ELSE IF pkg.release.kind # "version" \/ in.gh = NoAnswer
    THEN NotRun("err", pkg, fs)
    ELSE IF SameRelease(in.gh.tag, pkg.release.tag)
    THEN NotRun("ok", pkg, fs)
    ELSE LET dl == GithubDlUrl(in)
         IN  IF dl.st # "ok"
             THEN NotRun(dl.st, pkg, fs)
             ELSE LET r == PackageInstall(
                             [pkg EXCEPT !.installer.url = dl.url],
                             fs, in, now)
                  IN  [r EXCEPT !.pkg =
                         IF r.st = "ok"
                         THEN [r.pkg EXCEPT !.release = Version(in.gh.tag),
                                            !.last_update = now]
                         ELSE r.pkg]

\* PartialEq for Package
PkgEq(p, q) == p.name = q.name

\* Vec::contains
Contains(pkgs, pkg) == \E i \in 1..Len(pkgs) : PkgEq(pkgs[i], pkg)

\* Retain with the removal left out: the old entry stays in the list
RetainNothing(pkgs, pkg) == pkgs

\* Vec::retain(|x| x != &pkg)
RECURSIVE Retain(_, _)
Retain(pkgs, pkg) ==
    IF pkgs = <<>> THEN <<>>
    ELSE IF PkgEq(Head(pkgs), pkg) THEN Retain(Tail(pkgs), pkg)
    ELSE <<Head(pkgs)>> \o Retain(Tail(pkgs), pkg)

\* Vec::dedup: of consecutive equal elements the first is kept
RECURSIVE Dedup(_)
Dedup(pkgs) ==
    IF Len(pkgs) <= 1 THEN pkgs
    ELSE LET rest == Dedup(Tail(pkgs))
         IN  IF PkgEq(Head(pkgs), Head(rest)) THEN <<Head(pkgs)>> \o Tail(rest)
             ELSE <<Head(pkgs)>> \o rest

\* Vec::remove(i)
RemoveAt(pkgs, i) == SubSeq(pkgs, 1, i - 1) \o SubSeq(pkgs, i + 1, Len(pkgs))

\* index of the first element equal to pkg, 0 if there is none
IndexOf(pkgs, pkg) ==
    IF Contains(pkgs, pkg)
    THEN CHOOSE i \in 1..Len(pkgs) :
           /\ PkgEq(pkgs[i], pkg)
           /\ \A j \in 1..(i - 1) : ~PkgEq(pkgs[j], pkg)
    ELSE 0

-----------------------------------------------------------------------------
(* Spec: the commands.  What a command reads from the network and from the *)
(* user is drawn here; in is [payload, fault, cut, pick, gh, apick].       *)

\* the longest payload: no container has more entries
MaxEntries == CHOOSE m \in 0..8 :
                /\ \A p \in Payloads : Len(p) <= m
                /\ \E p \in Payloads : Len(p) = m

\* inputs of one run of Installer::install on url `u`
InstallerInputs(u, archive, gh, apick) ==
    LET tar == GuessArchive([url |-> u, archive |-> archive]) = "Tar"
    IN  { in \in [payload : Payloads, fault : {"none", "download", "archive"},
                  cut : 0..(MaxEntries - 1), pick : 0..(MaxEntries - 1),
                  gh : {gh}, apick : {apick}] :
            /\ in.fault = "archive" => tar
            /\ in.fault = "download" => in.cut \in {0, Len(in.payload) - 1}
            /\ in.fault # "download" => in.cut = 0
            /\ (~tar \/ in.fault # "none") => in.pick = 0 }

\* inputs of Package::install / Package::update on a package whose URL, or
\* GitHub origin, is `url`
Inputs(url, archive) ==
    IF ~IsSlug(url) THEN InstallerInputs(url, archive, NoAnswer, 0)
    ELSE { [payload |-> <<2>>, fault |-> "none", cut |-> 0, pick |-> 0,
            gh |-> NoAnswer, apick |-> 0] }
         \cup UNION { UNION { InstallerInputs(rel.assets[k + 1], archive,
                                               rel, k) :
                                 k \in 0..(Len(rel.assets) - 1) } :
                        rel \in Releases }

NoMoved == [n \in Names |-> NoFile]

\* history: the record of an operation (see `last`)
\*   op, name   the operation and the package it names
\*   st         how it ended
\*   moved      per package, the bytes it displaced into the backup
\*   prev       revert: what the operation before it had displaced
\*   pre        revert, update: files and registry when it started
\*   after      revert: what the operation before it was; install: "known"
\*              when the name was in the registry
\*   got, pick  install: the bytes downloaded and the index the user gave
\*   kind       install: the archive kind Installer::install went by
\*   listed     install: the entries install_tar showed
Did(op, name, st) ==
    [op |-> op, name |-> name, st |-> st, moved |-> NoMoved, prev |-> NoFile,
     pre |-> <<>>, after |-> "other", got |-> <<>>, pick |-> 0,
     kind |-> "none", listed |-> <<>>]

\* what a worker returns; history: `moved` as in Installer::install, `same`
\* when GitHub answered with the tag the package is recorded with
NoWres  == [st |-> "none", pkg |-> NewPackage("", NoUrl, NoneOpt),
            moved |-> NoFile, same |-> FALSE]

\* no process is running, the user may start one
CanStart ==
    /\ ncmd < MaxCmds
    /\ mainPc \in {"idle", "exited", "failed", "panicked"}

\* a process starts: the render task and its channel are fresh
FreshProcess ==
    /\ CanStart
    /\ ncmd' = ncmd + 1
    /\ queue' = <<>>
    /\ apc' = "run"
    /\ acks' = {}
    /\ quitLog' = <<>>
    /\ wres' = [n \in Names |-> NoWres]

\* a command that spawns no thread
NoWorkers ==
    /\ handles' = <<>>
    /\ wpc' = [n \in Names |-> "none"]

\* the entry of the registry with that name
Entry(pkgs, name) == pkgs[IndexOf(pkgs, NewPackage(name, NoUrl, NoneOpt))]
Has(pkgs, name)   == Contains(pkgs, NewPackage(name, NoUrl, NoneOpt))

\* BSPM::install, with BSPM::new before it
Install(name, url, force, answer, archive, in) ==
    LET pkg   == NewPackage(name, url, archive)
        known == Contains(config, pkg)
        pkgs1 == IF known THEN Retain(config, pkg) ELSE config
        r     == PackageInstall(pkg, files, in, ncmd + 1)
        done  == Dedup(Append(pkgs1, r.pkg))
    IN  /\ FreshProcess
        /\ NoWorkers
        /\ IF known /\ ~force /\ answer # "y"
           THEN /\ packages' = config
                /\ mainPc' = "quit_send"
                /\ last' = Did("install", name, "kept")
                /\ UNCHANGED <<config, files>>
           ELSE /\ r.st # "noinput"
                /\ files' = r.files
                /\ IF r.st = "ok"
                   THEN /\ packages' = done
                        /\ config' = done
                        /\ mainPc' = "quit_send"
                   ELSE /\ packages' = pkgs1
                        /\ mainPc' = "failed"
                        /\ UNCHANGED config
                /\ last' = [Did("install", name, r.st) EXCEPT
                              !.moved = [NoMoved EXCEPT ![name] =
                                           IF r.st = "ok" THEN r.moved
                                           ELSE NoFile],
                              !.after = IF known THEN "known" ELSE "other",
                              !.got = in.payload, !.pick = in.pick,
                              !.kind = r.kind, !.listed = r.listed]
    /\ UNCHANGED <<uiVars, askVars, dlVars, guessVars>>

\* BSPM::delete
Delete(name) ==
    /\ FreshProcess
    /\ NoWorkers
    /\ IF ~Has(config, name)
       THEN /\ packages' = config
            /\ mainPc' = "quit_send"
            /\ last' = [Did("delete", name, "absent") EXCEPT
                              !.pre = <<files, config>>]
            /\ UNCHANGED <<config, files>>
       ELSE LET i == IndexOf(config, NewPackage(name, NoUrl, NoneOpt))
                r == InstallerUninstall(config[i].installer, files)
            IN  /\ files' = r.files
                /\ IF r.ok
                   THEN /\ packages' = RemoveAt(config, i)
                        /\ config' = RemoveAt(config, i)
                        /\ mainPc' = "quit_send"
                   ELSE /\ packages' = config
                        /\ mainPc' = "failed"
                        /\ UNCHANGED config
                /\ last' = [Did("delete", name,
                                 IF r.ok THEN "ok" ELSE "err") EXCEPT
                                  !.pre = <<files, config>>]
    /\ UNCHANGED <<uiVars, askVars, dlVars, guessVars>>

\* what the operation before this one displaced from name's destination
JustMoved(name) ==
    IF last.op \in {"install", "update"} /\ last.st = "ok"
    THEN last.moved[name] ELSE NoFile

\* history: what the operation before a revert of `name` was
Before(name) ==
    IF JustMoved(name) # NoFile THEN "overwrite"
    ELSE IF /\ last.op = "revert" /\ last.name = name /\ last.st = "ok"
            /\ last.after = "overwrite"
    THEN "restore"
    ELSE "other"

\* BSPM::revert
Revert(name) ==
    /\ FreshProcess
    /\ NoWorkers
    /\ IF ~Has(config, name)
       THEN /\ packages' = config
            /\ mainPc' = "quit_send"
            /\ last' = [Did("revert", name, "absent") EXCEPT
                              !.pre = <<files, config>>]
            /\ UNCHANGED <<config, files>>
       ELSE LET i    == IndexOf(config, NewPackage(name, NoUrl, NoneOpt))
                r    == InstallerRevert(config[i].installer, files)
                pkgs == [config EXCEPT ![i].installer = r.inst]
            IN  /\ files' = r.files
                /\ packages' = pkgs
                /\ IF r.ok
                   THEN /\ config' = pkgs
                        /\ mainPc' = "quit_send"
                   ELSE /\ mainPc' = "failed"
                        /\ UNCHANGED config
                /\ last' = [Did("revert", name,
                                 IF ~r.ok THEN "err"
                                 ELSE IF config[i].installer.backup = NoPath
                                 THEN "nobackup" ELSE "ok") EXCEPT
                              !.prev = JustMoved(name),
                              !.pre = <<files, config>>,
                              !.after = Before(name)]
    /\ UNCHANGED <<uiVars, askVars, dlVars, guessVars>>

-----------------------------------------------------------------------------
(* Spec: the stdout channel and the render task, as far as a command's     *)
(* threads depend on them.  What the task draws is left to SpecUI.         *)

\* bounded(1) of UI::new
Capacity == 1

\* the process is running: its threads and tasks take steps
Alive == mainPc \in {"join", "quit_send", "quit_wait"}

\* Context::send by `who`: the message is accepted when the channel has
\* room; on a closed channel send fails and expect() panics.
SendAccepted(who, kind) ==
    /\ apc # "closed"
    /\ Len(queue) < Capacity
    /\ queue' = Append(queue, [from |-> who, kind |-> kind])
    /\ quitLog' = IF kind = "Quit" THEN Append(quitLog, who) ELSE quitLog

SendFails ==
    /\ apc = "closed"
    /\ UNCHANGED <<queue, quitLog>>

\* UI::mainloop: one message received and handled
ActorRecv ==
    /\ Alive
    /\ apc = "run"
    /\ queue # <<>>
    /\ queue' = Tail(queue)
    /\ IF Head(queue).kind = "Quit"
       THEN /\ acks' = acks \cup {Head(queue).from}
            /\ apc' = "exiting"
       ELSE UNCHANGED <<acks, apc>>
    /\ UNCHANGED <<config, files, ncmd, mainPc, packages, handles, wpc, wres,
                   quitLog, last>>
    /\ UNCHANGED <<uiVars, askVars, dlVars, guessVars>>

\* UI::mainloop has returned: the UI, and with it the only receiver of the
\* channel, is dropped
ActorDrop ==
    /\ Alive
    /\ apc = "exiting"
    /\ apc' = "closed"
    /\ UNCHANGED <<config, files, ncmd, mainPc, packages, handles, wpc, wres,
                   queue, acks, quitLog, last>>
    /\ UNCHANGED <<uiVars, askVars, dlVars, guessVars>>

\* Command::go: ui::context("", "").await.quit()
DriverQuitSend ==
    /\ mainPc = "quit_send"
    /\ \/ SendAccepted("main", "Quit") /\ mainPc' = "quit_wait"
       \/ SendFails /\ mainPc' = "panicked"
    /\ UNCHANGED <<config, files, ncmd, packages, handles, wpc, wres, apc,
                   acks, last>>
    /\ UNCHANGED <<uiVars, askVars, dlVars, guessVars>>

DriverQuitAck ==
    /\ mainPc = "quit_wait"
    /\ "main" \in acks
    /\ mainPc' = "exited"
    /\ UNCHANGED <<config, files, ncmd, packages, handles, wpc, wres, queue,
                   apc, acks, quitLog, last>>
    /\ UNCHANGED <<uiVars, askVars, dlVars, guessVars>>

-----------------------------------------------------------------------------
(* Spec: BSPM::update.                                                     *)

\* the spawn loop without its is_empty test: no names, no workers
RECURSIVE SpawnedListed(_, _)
SpawnedListed(pkgs, req) ==
    IF pkgs = <<>> THEN <<>>
    ELSE IF Head(pkgs).name \notin req
    THEN SpawnedListed(Tail(pkgs), req)
    ELSE <<Head(pkgs).name>> \o SpawnedListed(Tail(pkgs), req)

\* the names of the packages a worker is spawned for, in registry order
RECURSIVE Spawned(_, _)
Spawned(pkgs, req) ==
    IF pkgs = <<>> THEN <<>>
    ELSE IF Head(pkgs).name \notin req /\ req # {}
    THEN Spawned(Tail(pkgs), req)
    ELSE <<Head(pkgs).name>> \o Spawned(Tail(pkgs), req)

Range(seq) == {seq[i] : i \in 1..Len(seq)}

\* BSPM::update up to the spawn loop, with BSPM::new before it
UpdStart(req) ==
    /\ FreshProcess
    /\ packages' = config
    /\ IF config = <<>>
       THEN /\ NoWorkers
            /\ mainPc' = "quit_send"
            /\ last' = Did("update", "", "ok")
       ELSE /\ handles' = Spawned(config, req)
            /\ wpc' = [n \in Names |->
                         IF n \in Range(Spawned(config, req)) THEN "begin"
                         ELSE "none"]
            /\ mainPc' = "join"
            /\ last' = [Did("update", "", "running") EXCEPT
                              !.pre = <<files, config>>]
    /\ UNCHANGED <<config, files>>
    /\ UNCHANGED <<uiVars, askVars, dlVars, guessVars>>

\* a worker's send; on a closed channel the worker thread panics
WorkerSend(n, kind, next) ==
    \/ SendAccepted(n, kind) /\ wpc' = [wpc EXCEPT ![n] = next]
    \/ SendFails /\ wpc' = [wpc EXCEPT ![n] = "panicked"]

\* what a bulk update reads: the download delivers Upgrade, the user picks
\* the first entry and the first asset
Upgrade == <<1, 2, 0>>
UpdInputs(url, archive) ==
    { in \in Inputs(url, archive) :
        in.payload = Upgrade /\ in.cut = 0 /\ in.pick = 0 /\ in.apick = 0 }

\* Package::update on the clone taken at the spawn: its first notify, whose
\* send panics on a closed channel, and then the rest of it
WBody(n) ==
    /\ Alive
    /\ wpc[n] = "begin"
    /\ \/ /\ SendFails
          /\ wpc' = [wpc EXCEPT ![n] = "panicked"]
          /\ UNCHANGED <<files, wres>>
       \/ /\ SendAccepted(n, "Notification")
          /\ LET pkg == Entry(config, n)
                 url == IF pkg.github = NoUrl THEN pkg.installer.url
                        ELSE pkg.github
             IN  \E in \in UpdInputs(url, pkg.installer.archive) :
                   LET r == PackageUpdate(pkg, files, in, ncmd)
                   IN  /\ r.st # "noinput"
                       /\ files' = r.files
                       /\ wres' = [wres EXCEPT ![n] =
                                     [st |-> r.st, pkg |-> r.pkg,
                                      moved |-> r.moved,
                                      same |-> /\ pkg.github # NoUrl
                                               /\ in.gh # NoAnswer
                                               /\ in.gh.tag = pkg.release.tag]]
                       /\ wpc' = [wpc EXCEPT ![n] =
                                    IF r.st = "ok" THEN "quit_send"
                                    ELSE "fail_notify"]
    /\ UNCHANGED <<config, ncmd, mainPc, packages, handles, apc, acks, last>>
    /\ UNCHANGED <<uiVars, askVars, dlVars, guessVars>>

\* the worker closure: ctx.notify("Update failed: ...")
WFailNotify(n) ==
    /\ Alive
    /\ wpc[n] = "fail_notify"
    /\ WorkerSend(n, "Notification", "quit_send")
    /\ UNCHANGED <<config, files, ncmd, mainPc, packages, handles, wres, apc,
                   acks, last>>
    /\ UNCHANGED <<uiVars, askVars, dlVars, guessVars>>

\* the worker closure: ctx.quit(), the send
WQuitSend(n) ==
    /\ Alive
    /\ wpc[n] = "quit_send"
    /\ WorkerSend(n, "Quit", "quit_wait")
    /\ UNCHANGED <<config, files, ncmd, mainPc, packages, handles, wres, apc,
                   acks, last>>
    /\ UNCHANGED <<uiVars, askVars, dlVars, guessVars>>

\* the worker closure: ctx.quit(), the acknowledgment; the thread ends
WQuitAck(n) ==
    /\ Alive
    /\ wpc[n] = "quit_wait"
    /\ n \in acks
    /\ wpc' = [wpc EXCEPT ![n] = "done"]
    /\ UNCHANGED <<config, files, ncmd, mainPc, packages, handles, wres,
                   queue, apc, acks, quitLog, last>>
    /\ UNCHANGED <<uiVars, askVars, dlVars, guessVars>>

\* the merge of one joined result (the inner loop of BSPM::update)
Merge(pkgs, res) ==
    IF res.st = "ok" /\ Contains(pkgs, res.pkg)
    THEN Append(RemoveAt(pkgs, IndexOf(pkgs, res.pkg)), res.pkg)
    ELSE pkgs

\* JoinHandle::join returns once the worker's closure has returned
JoinableEarly(h) == TRUE
Joinable(h) == wpc[h] = "done"

\* BSPM::update: handle.join() of the next handle, and the merge
Join ==
    /\ mainPc = "join"
    /\ handles # <<>>
    /\ LET h == Head(handles)
       IN  \/ /\ Joinable(h)
              /\ packages' = Merge(packages, wres[h])
              /\ handles' = Tail(handles)
              /\ UNCHANGED mainPc
           \/ /\ wpc[h] = "panicked"
              /\ mainPc' = "panicked"
              /\ UNCHANGED <<packages, handles>>
    /\ UNCHANGED <<config, files, ncmd, wpc, wres, queue, apc, acks, quitLog,
                   last>>
    /\ UNCHANGED <<uiVars, askVars, dlVars, guessVars>>

\* BSPM::update: write_config, and the return
UpdFinish ==
    /\ mainPc = "join"
    /\ handles = <<>>
    /\ config' = packages
    /\ mainPc' = "quit_send"
    /\ last' = [last EXCEPT !.st = "ok",
                            !.moved = [n \in Names |->
                                         IF wres[n].st = "ok"
                                         THEN wres[n].moved ELSE NoFile]]
    /\ UNCHANGED <<files, ncmd, packages, handles, wpc, wres, queue, apc,
                   acks, quitLog>>
    /\ UNCHANGED <<uiVars, askVars, dlVars, guessVars>>

-----------------------------------------------------------------------------
(* Spec.                                                                   *)

\* a file that was in the bin directory before bspm was used
Foreign == <<1>>

\* the other specifications' variables, at rest
UiIdle ==
    /\ uq = <<>> /\ uans = <<>> /\ upc = "off" /\ ucur = <<>>
    /\ uline = <<>> /\ uacks = {} /\ bars = <<>>
    /\ hpc = <<>> /\ hops = <<>> /\ hgot = <<>>
    /\ accepted = <<>> /\ processed = <<>> /\ overlap = FALSE
AskIdle ==
    /\ anPc = "off" /\ anMin = 0 /\ anMax = 0 /\ anLine = <<>>
    /\ anRet = -1 /\ anAsks = 0 /\ anNotes = 0 /\ anBad = 0
DlIdle ==
    /\ dlTotal = 0 /\ dlSize = 0 /\ dlDone = 0
    /\ dlCopy = "off" /\ dlPc = "off" /\ dlSent = <<>>
GuessIdle ==
    /\ gPc = "off" /\ gInst = [url |-> NoUrl, archive |-> NoneOpt,
                               compression |-> NoneOpt]
    /\ gArchive = NoneOpt /\ gCompression = NoneOpt
    /\ gArgs = [compression |-> NoneOpt, archive |-> NoneOpt]
SpecIdle ==
    /\ config = <<>>
    /\ files = [p \in Paths |-> IF p = Bin("a") THEN Foreign ELSE NoFile]
    /\ ncmd = 0
    /\ mainPc = "idle"
    /\ packages = <<>>
    /\ handles = <<>>
    /\ wpc = [n \in Names |-> "none"]
    /\ wres = [n \in Names |-> NoWres]
    /\ queue = <<>>
    /\ apc = "run"
    /\ acks = {}
    /\ quitLog = <<>>
    /\ last = Did("none", "", "none")

\* an empty registry (bspm init --no-install); the bin directory already
\* holds a file named a that bspm did not install
Init == SpecIdle /\ UiIdle /\ AskIdle /\ DlIdle /\ GuessIdle

\* what the user installs: `a` from a GitHub repository or, as a plain
\* file, from a URL; `b` from a URL that ends in .tar
Catalog ==
    { [name |-> "a", url |-> Slug, archive |-> NoneOpt],
      [name |-> "a", url |-> UrlTar, archive |-> "None"],
      [name |-> "b", url |-> UrlTar, archive |-> NoneOpt] }

InstallCmd ==
    /\ CanStart
    /\ \E c \in Catalog :
         \E in \in Inputs(c.url, c.archive) :
           \E force \in BOOLEAN, answer \in {"y", "n"} :
             /\ (force => answer = "n")
             /\ (~Has(config, c.name) => ~force /\ answer = "n")
             /\ Install(c.name, c.url, force, answer, c.archive, in)

DeleteCmd == CanStart /\ \E name \in Names : Delete(name)

RevertCmd == CanStart /\ \E name \in Names : Revert(name)

UpdateCmd == CanStart /\ \E req \in SUBSET Names : UpdStart(req)

Next ==
    \/ InstallCmd
    \/ DeleteCmd
    \/ RevertCmd
    \/ UpdateCmd
    \/ \E n \in Names : WBody(n)
    \/ \E n \in Names : WFailNotify(n)
    \/ \E n \in Names : WQuitSend(n)
    \/ \E n \in Names : WQuitAck(n)
    \/ Join
    \/ UpdFinish
    \/ ActorRecv
    \/ ActorDrop
    \/ DriverQuitSend
    \/ DriverQuitAck

Spec == Init /\ [][Next]_vars

-----------------------------------------------------------------------------
(* Claims on Spec.                                                         *)

NamesUnique(pkgs) ==
    \A i, j \in 1..Len(pkgs) : i # j => pkgs[i].name # pkgs[j].name

\* C1: after any sequence of install (forced or not), delete, revert and bulk
\* update, no two packages of the registry have the same name, in memory and
\* in the saved config alike.
C1_UniqueNames == NamesUnique(config) /\ NamesUnique(packages)

\* C1's case: a registry of two packages, one of them just installed again
\* over its own earlier installation
C1_Witness ==
    /\ last.op = "install" /\ last.st = "ok" /\ last.after = "known"
    /\ Len(config) = 2

UpdateMerged ==
    (last.op = "update" /\ last.st = "ok" /\ last.pre # <<>>) =>
      \A n \in Names :
        /\ wres[n].st = "err" => Entry(config, n) = Entry(last.pre[2], n)
        /\ wres[n].st = "ok" => Entry(config, n) = wres[n].pkg

\* C3: in a bulk update a failed worker's entry stays as it was, a worker
\* that succeeded has its entry replaced by the package it returned, and
\* the update is not aborted: BSPM::update returns.
C3_BulkUpdateIsolates ==
    /\ UpdateMerged
    /\ ~(last.op = "update" /\ last.st = "running" /\ mainPc = "panicked")

\* C4: in a bulk update every spawned worker runs to its own Succeeded or
\* Failed; none is crashed by what another worker did to the render task
\* and the channel they share.
C4_WorkersIndependent == \A n \in Names : wpc[n] # "panicked"

\* C5: in one command run Quit is sent once, by the top-level driver, after
\* every worker has finished; no worker sends Quit.
C5_QuitOnceByDriver ==
    /\ quitLog \in {<<>>, <<"main">>}
    /\ quitLog = <<"main">> => \A n \in Names : wpc[n] \in {"none", "done"}

-----------------------------------------------------------------------------
(* SpecUI: the render task (UI::mainloop) and the threads that talk to it  *)
(* through clones of the one Context (ui.rs).                              *)

\* messages the channel accepts in one run
MaxMsgs == 4

\* the threads, each named by the label of its Context
Handles == {"h1", "h2"}

\* what Progress messages carry
Labels == {"u1", "u2"}
Currents == {1, 2}
Total == 2

\* what the user types
Lines == {"y"}

\* the height termion::terminal_size() reports
TermHeight == 3

Keys == Handles \cup Labels
NoBar == [cur |-> -1, total |-> -1]
NoLine == [line |-> "", prompt |-> ""]
RecvError == [line |-> "RecvError", prompt |-> ""]

\* the k-th message of handle h; `from` is the label the Context sends along
Msg(h, k, kind, label, cur) ==
    [from |-> h, seq |-> k, kind |-> kind, label |-> label, cur |-> cur]

Messages(h, k) ==
    { Msg(h, k, kind, "", 0) : kind \in {"Notification", "Question", "Quit"} }
      \cup { Msg(h, k, "Progress", l, c) : l \in Labels, c \in Currents }

\* a bounded channel takes an item while it holds fewer than its capacity
HasRoomAlways(q) == TRUE
HasRoom(q) == Len(q) < Capacity

\* the render task has returned or died: its receiver and the sender of the
\* answer channel are dropped
UiClosed == upc \in {"exited", "failed"}

\* the render task is at stdout_recv.recv()
UiReadyWhileHandling == upc \in {"recv", "handle"}
UiReady == upc = "recv"

\* a thread is inside Context::ask, at stdin.recv()
AskPendingAlways(h) == TRUE
AskPending(h) == hpc[h] = "recv"

\* ---- the threads

\* Context::send of notify, progress, ask or quit: the channel accepts it
HSend(h) ==
    /\ hpc[h] = "idle"
    /\ Len(accepted) < MaxMsgs
    /\ ~UiClosed
    /\ HasRoom(uq)
    /\ \E m \in Messages(h, hops[h] + 1) :
         /\ uq' = Append(uq, m)
         /\ accepted' = Append(accepted, m)
         /\ hpc' = [hpc EXCEPT ![h] =
                      CASE m.kind = "Question" -> "recv"
                        [] m.kind = "Quit" -> "ackwait"
                        [] OTHER -> "idle"]
         /\ overlap' = (overlap \/ (m.kind = "Question"
                                    /\ \E g \in Handles \ {h} :
                                         hpc[g] = "recv"))
    /\ hops' = [hops EXCEPT ![h] = @ + 1]
    /\ UNCHANGED <<uans, upc, ucur, uline, uacks, bars, hgot, processed>>
    /\ UNCHANGED <<specVars, askVars, dlVars, guessVars>>

\* Context::send on a closed channel: expect("internal channel error")
HSendFails(h) ==
    /\ hpc[h] = "idle"
    /\ Len(accepted) < MaxMsgs
    /\ UiClosed
    /\ hpc' = [hpc EXCEPT ![h] = "panicked"]
    /\ UNCHANGED <<uq, uans, upc, ucur, uline, uacks, bars, hops, hgot,
                   accepted, processed, overlap>>
    /\ UNCHANGED <<specVars, askVars, dlVars, guessVars>>

\* Context::ask: stdin.recv() takes whatever line is in the answer channel
HRecv(h) ==
    /\ AskPending(h)
    /\ uans # <<>>
    /\ hgot' = [hgot EXCEPT ![h] = Head(uans)]
    /\ uans' = Tail(uans)
    /\ hpc' = [hpc EXCEPT ![h] = "idle"]
    /\ UNCHANGED <<uq, upc, ucur, uline, uacks, bars, hops, accepted,
                   processed, overlap>>
    /\ UNCHANGED <<specVars, askVars, dlVars, guessVars>>

\* Context::ask: stdin.recv() on the closed and empty answer channel
HRecvFails(h) ==
    /\ AskPending(h)
    /\ uans = <<>>
    /\ UiClosed
    /\ hgot' = [hgot EXCEPT ![h] = RecvError]
    /\ hpc' = [hpc EXCEPT ![h] = "idle"]
    /\ UNCHANGED <<uq, uans, upc, ucur, uline, uacks, bars, hops, accepted,
                   processed, overlap>>
    /\ UNCHANGED <<specVars, askVars, dlVars, guessVars>>

\* Context::quit: rx.recv() returns the acknowledgment
HQuitAck(h) ==
    /\ hpc[h] = "ackwait"
    /\ h \in uacks
    /\ uacks' = uacks \ {h}
    /\ hpc' = [hpc EXCEPT ![h] = "idle"]
    /\ UNCHANGED <<uq, uans, upc, ucur, uline, bars, hops, hgot, accepted,
                   processed, overlap>>
    /\ UNCHANGED <<specVars, askVars, dlVars, guessVars>>

\* ---- the render task

\* stdout_recv.recv() returns the oldest message
UiRecv ==
    /\ UiReady
    /\ uq # <<>>
    /\ ucur' = <<Head(uq)>>
    /\ uq' = Tail(uq)
    /\ upc' = "handle"
    /\ UNCHANGED <<uans, uline, uacks, bars, hpc, hops, hgot, accepted,
                   processed, overlap>>
    /\ UNCHANGED <<specVars, askVars, dlVars, guessVars>>

\* t_y as usize - (bars.len() + 2) goes below zero
Underflows(b) == Cardinality({k \in Keys : b[k] # NoBar}) + 2 > TermHeight

\* the Draw part of the loop body with the bars b: the subtraction panics
\* where overflow checks are compiled in and wraps where they are not
Draw(b) ==
    \E nxt \in (IF Underflows(b) THEN {"recv", "failed"} ELSE {"recv"}) :
      /\ upc' = nxt
      /\ IF nxt = "recv"
           THEN processed' = Append(processed, ucur[1]) /\ ucur' = <<>>
           ELSE UNCHANGED <<processed, ucur>>

UiNotification ==
    /\ upc = "handle" /\ ucur[1].kind = "Notification"
    /\ Draw(bars)
    /\ UNCHANGED <<uq, uans, uline, uacks, bars, hpc, hops, hgot, accepted,
                   overlap>>
    /\ UNCHANGED <<specVars, askVars, dlVars, guessVars>>

\* Message::Progress with a bar once inserted never touched again
ProgressBarsKeepFirst(b, m) ==
    IF b[m.label] # NoBar
      THEN b
      ELSE [b EXCEPT ![m.label] = [cur |-> m.cur, total |-> Total]]

\* the bar is looked up under the sender's label and inserted under the
\* label in the message
ProgressBars(b, m) ==
    IF b[m.from] # NoBar
      THEN [b EXCEPT ![m.from].cur = m.cur]
      ELSE [b EXCEPT ![m.label] = [cur |-> m.cur, total |-> Total]]

UiProgress ==
    /\ upc = "handle" /\ ucur[1].kind = "Progress"
    /\ bars' = ProgressBars(bars, ucur[1])
    /\ Draw(bars')
    /\ UNCHANGED <<uq, uans, uline, uacks, hpc, hops, hgot, accepted,
                   overlap>>
    /\ UNCHANGED <<specVars, askVars, dlVars, guessVars>>

\* UI::read_line up to the newline: the user answers the prompt on screen
UiReadLine ==
    /\ upc = "handle" /\ ucur[1].kind = "Question"
    /\ \E l \in Lines : uline' = <<[line |-> l, prompt |-> ucur[1].from]>>
    /\ upc' = "answer"
    /\ UNCHANGED <<uq, uans, ucur, uacks, bars, hpc, hops, hgot, accepted,
                   processed, overlap>>
    /\ UNCHANGED <<specVars, askVars, dlVars, guessVars>>

\* UI::read_line: stdin_send.send(answer_input), then the Draw part
UiAnswer ==
    /\ upc = "answer"
    /\ HasRoom(uans)
    /\ uans' = Append(uans, uline[1])
    /\ uline' = <<>>
    /\ Draw(bars)
    /\ UNCHANGED <<uq, uacks, bars, hpc, hops, hgot, accepted, overlap>>
    /\ UNCHANGED <<specVars, askVars, dlVars, guessVars>>

\* Message::Quit: acknowledge
UiQuit ==
    /\ upc = "handle" /\ ucur[1].kind = "Quit"
    /\ uacks' = uacks \cup {ucur[1].from}
    /\ processed' = Append(processed, ucur[1])
    /\ ucur' = <<>>
    /\ upc' = "exiting"
    /\ UNCHANGED <<uq, uans, uline, bars, hpc, hops, hgot, accepted,
                   overlap>>
    /\ UNCHANGED <<specVars, askVars, dlVars, guessVars>>

\* Message::Quit: return Ok(()), which drops the UI and its channel ends
UiDrop ==
    /\ upc = "exiting"
    /\ upc' = "exited"
    /\ UNCHANGED <<uq, uans, ucur, uline, uacks, bars, hpc, hops, hgot,
                   accepted, processed, overlap>>
    /\ UNCHANGED <<specVars, askVars, dlVars, guessVars>>

\* the render task is spawned and the threads hold their handles
UiStarted ==
    /\ uq = <<>> /\ uans = <<>> /\ upc = "recv" /\ ucur = <<>>
    /\ uline = <<>> /\ uacks = {}
    /\ bars = [k \in Keys |-> NoBar]
    /\ hpc = [h \in Handles |-> "idle"]
    /\ hops = [h \in Handles |-> 0]
    /\ hgot = [h \in Handles |-> NoLine]
    /\ accepted = <<>> /\ processed = <<>> /\ overlap = FALSE

InitUI == SpecIdle /\ UiStarted /\ AskIdle /\ DlIdle /\ GuessIdle

NextUI ==
    \/ \E h \in Handles : HSend(h)
    \/ \E h \in Handles : HSendFails(h)
    \/ \E h \in Handles : HRecv(h)
    \/ \E h \in Handles : HRecvFails(h)
    \/ \E h \in Handles : HQuitAck(h)
    \/ UiRecv
    \/ UiNotification
    \/ UiProgress
    \/ UiReadLine
    \/ UiAnswer
    \/ UiQuit
    \/ UiDrop

SpecUI == InitUI /\ [][NextUI]_vars

-----------------------------------------------------------------------------
(* Claims on SpecUI.                                                       *)

IsPrefix(a, b) == Len(a) <= Len(b) /\ SubSeq(b, 1, Len(a)) = a

\* the messages of each handle are processed in the order it issued them
HandleOrder ==
    \A i, j \in 1..Len(processed) :
      (i < j /\ processed[i].from = processed[j].from)
        => processed[i].seq < processed[j].seq

\* C6 as stated: the render task processes messages in the order the channel
\* accepted them, each handle's messages in the order it issued them, and
\* after an item has been accepted no other is accepted until that item has
\* been processed.
C6_NoAcceptBeforeProcessed ==
    /\ IsPrefix(processed, accepted)
    /\ HandleOrder
    /\ Len(accepted) - Len(processed) <= 1

\* C6 as the program has it: the render task processes messages in the order
\* the channel accepted them, each handle's messages in the order it issued
\* them, and after an item has been accepted no other is accepted until the
\* render task has taken that item out of the channel; the next item can be
\* accepted while the task is still processing the one it took.
C6_FifoAcceptAfterTaken ==
    /\ IsPrefix(processed, accepted)
    /\ HandleOrder
    /\ Len(ucur) <= 1
    /\ accepted = processed \o ucur \o uq
    /\ Len(accepted) - Len(processed) <= 2

\* C6's case: both handles have had messages processed, and the next item
\* was accepted while the render task is still handling the one before it
C6_Witness ==
    /\ \A h \in Handles : \E i \in 1..Len(processed) : processed[i].from = h
    /\ ucur # <<>> /\ uq # <<>>
    /\ uq[1].from # ucur[1].from

\* C7: the queue never holds more than one message, and a send is accepted
\* only in a state where the render task has taken every message accepted
\* before it out of the queue; until then the sender stays blocked.
C7_QueueHoldsOne ==
    /\ [](Len(uq) <= 1)
    /\ [][accepted' # accepted =>
            /\ uq = <<>>
            /\ Len(accepted) = Len(processed) + Len(ucur)
            /\ uq' = <<accepted'[Len(accepted')]>>]_vars

\* C7's case: the queue is full behind a message the render task is still
\* handling, and both threads are ready to send their next message
C7_Witness ==
    /\ Len(uq) = 1 /\ ucur # <<>>
    /\ Len(accepted) < MaxMsgs
    /\ \A h \in Handles : hpc[h] = "idle" /\ hops[h] > 0

\* C8: the answer channel carries no addressee, so a handle can receive the
\* line read for another handle's prompt; this happens only in a run where
\* two asks have been pending at the same time.
C8_CrossTalkNeedsOverlap ==
    \A h \in Handles : hgot[h].prompt \notin {"", h} => overlap

\* C8's case: both handles asked, and one has received the line the user
\* typed at the other's prompt while the other is still waiting
C8_Witness ==
    \E h \in Handles : \E g \in Handles \ {h} :
      /\ hgot[h].prompt = g
      /\ hpc[h] = "idle"
      /\ AskPending(g)

-----------------------------------------------------------------------------
(* SpecAsk: Context::ask_number (ui.rs).  A line is a sequence of           *)
(* characters.                                                             *)

\* longest line the user types
MaxLine == 3

\* prompts one call issues
MaxAsks == 2

Chars == {" ", "+", "-", "0", "1", "2", "x"}
AskLines == UNION { [1..n -> Chars] : n \in 0..MaxLine }
AskRange == 0..2
AskErr == <<"RecvError">>

\* str::trim: drop the white space at both ends
RECURSIVE TrimStart(_)
TrimStart(s) ==
    IF s # <<>> /\ Head(s) = " " THEN TrimStart(Tail(s)) ELSE s

RECURSIVE TrimEnd(_)
TrimEnd(s) ==
    IF s # <<>> /\ s[Len(s)] = " "
      THEN TrimEnd(SubSeq(s, 1, Len(s) - 1))
      ELSE s

Trim(s) == TrimEnd(TrimStart(s))

DigitChars == <<"0", "1", "2", "3", "4", "5", "6", "7", "8", "9">>
IsDigit(c) == \E i \in 1..Len(DigitChars) : DigitChars[i] = c
DigitValue(c) == (CHOOSE i \in 1..Len(DigitChars) : DigitChars[i] = c) - 1

RECURSIVE Decimal(_)
Decimal(ds) ==
    IF ds = <<>>
      THEN 0
      ELSE 10 * Decimal(SubSeq(ds, 1, Len(ds) - 1)) + DigitValue(ds[Len(ds)])

\* str::parse::<usize>: an optional '+', then one digit or more
ParseUsize(s) ==
    LET ds == IF s # <<>> /\ Head(s) = "+" THEN Tail(s) ELSE s
    IN  IF ds # <<>> /\ \A i \in 1..Len(ds) : IsDigit(ds[i])
          THEN [ok |-> TRUE, x |-> Decimal(ds)]
          ELSE [ok |-> FALSE, x |-> 0]

\* the range check of ask_number
InRangeClosed(x, min, max) == x >= min /\ x <= max
InRange(x, min, max) == x >= min /\ x < max

\* the line is an integer of [min, max)
Acceptable(line, min, max) ==
    LET p == ParseUsize(Trim(line))
    IN  p.ok /\ p.x \in min..(max - 1)

\* the history counters count up to MaxAsks rounds of the loop
Counted(n) == IF n < MaxAsks THEN n + 1 ELSE n

\* self.ask(msg): the Question is sent
AnAsk ==
    /\ anPc = "call"
    /\ anAsks < MaxAsks
    /\ anAsks' = anAsks + 1
    /\ anPc' = "wait"
    /\ UNCHANGED <<anMin, anMax, anLine, anRet, anNotes, anBad>>
    /\ UNCHANGED <<specVars, uiVars, dlVars, guessVars>>

\* self.ask(msg) returns a line: trim, parse, range check
AnAnswer ==
    /\ anPc = "wait"
    /\ \E input \in AskLines :
         LET p == ParseUsize(Trim(input))
         IN  /\ anLine' = input
             /\ anBad' = IF Acceptable(input, anMin, anMax)
                           THEN anBad ELSE Counted(anBad)
             /\ IF p.ok /\ InRange(p.x, anMin, anMax)
                  THEN anRet' = p.x /\ anPc' = "returned"
                  ELSE anRet' = anRet /\ anPc' = "notify"
    /\ UNCHANGED <<anMin, anMax, anAsks, anNotes>>
    /\ UNCHANGED <<specVars, uiVars, dlVars, guessVars>>

\* self.ask(msg) returns Err: the loop ends, "Failed to receive from STDIN"
AnAskFails ==
    /\ anPc = "wait"
    /\ anLine' = AskErr
    /\ anPc' = "failed"
    /\ UNCHANGED <<anMin, anMax, anRet, anAsks, anNotes, anBad>>
    /\ UNCHANGED <<specVars, uiVars, dlVars, guessVars>>

\* self.notify("Invalid input: ..."), which ends the life of `line` and
\* `input`; then the loop asks again
AnNotify ==
    /\ anPc = "notify"
    /\ anNotes' = Counted(anNotes)
    /\ anLine' = <<>>
    /\ anPc' = "call"
    /\ UNCHANGED <<anMin, anMax, anRet, anAsks, anBad>>
    /\ UNCHANGED <<specVars, uiVars, dlVars, guessVars>>

\* ask_number(min, max, msg) is called
AskCalled ==
    /\ anPc = "call"
    /\ anMin \in AskRange /\ anMax \in AskRange
    /\ anLine = <<>> /\ anRet = -1
    /\ anAsks = 0 /\ anNotes = 0 /\ anBad = 0

InitAsk == SpecIdle /\ UiIdle /\ AskCalled /\ DlIdle /\ GuessIdle

NextAsk == AnAsk \/ AnAnswer \/ AnAskFails \/ AnNotify

SpecAsk == InitAsk /\ [][NextAsk]_vars

-----------------------------------------------------------------------------
(* Claims on SpecAsk.                                                      *)

\* C9: ask_number returns only an integer x with min <= x < max, the value
\* of the first answer that is such an integer; every answer before it got
\* one "Invalid input" notification and then a new prompt, and the loop
\* gives up after no number of invalid answers.
C9_AskNumber ==
    /\ anPc = "returned" =>
         /\ anRet \in anMin..(anMax - 1)
         /\ Acceptable(anLine, anMin, anMax)
         /\ anRet = ParseUsize(Trim(anLine)).x
         /\ anBad = anAsks - 1
         /\ anNotes = anBad
    /\ anPc # "returned" => anRet = -1
    /\ anPc = "notify" =>
         /\ ~Acceptable(anLine, anMin, anMax)
         /\ anBad = anAsks /\ anNotes = anBad - 1
    /\ anPc = "call" => anAsks = anBad /\ anNotes = anBad
    /\ anPc = "wait" => anAsks = anBad + 1 /\ anNotes = anBad
    /\ anPc = "failed" => anLine = AskErr /\ anNotes = anBad

\* C9's case: the call returned on its second prompt, the answer typed with
\* white space around the number
C9_Witness ==
    /\ anPc = "returned"
    /\ anAsks = 2 /\ anNotes = 1
    /\ Trim(anLine) # anLine
    /\ anRet > 0

-----------------------------------------------------------------------------
(* SpecDl: Installer::download, the body copy and the progresser task      *)
(* running side by side (installer.rs).                                    *)

\* Progress messages of one download
MaxSamples == 3

\* bytes per unit shown
Unit == 1000

\* sizes of the response body, and how far a transfer gets in one step
Sizes == {0, 999, 2000, 2500}
Step == 500

\* values the transfer counter takes on the way to size n
Marks(n) == {k \in 0..n : k = n \/ k % Step = 0}

\* the progresser leaves its loop on this sample
StopsOnUnits(p) == p[1] \div Unit = p[2] \div Unit
Stops(p) == p[1] = p[2]

\* what ctx.progress is called with for the sample p
Shown(p) ==
    [current |-> p[1] \div Unit, total |-> p[2] \div Unit,
     transferred |-> p[1]]

\* async_std::io::copy moves more of the body
DlChunk ==
    /\ dlCopy = "copy"
    /\ \E k \in Marks(dlSize) : k > dlDone /\ dlDone' = k
    /\ UNCHANGED <<dlTotal, dlSize, dlCopy, dlPc, dlSent>>
    /\ UNCHANGED <<specVars, uiVars, askVars, guessVars>>

\* copy and flush are done; download waits for the progresser
DlCopied ==
    /\ dlCopy = "copy"
    /\ dlDone = dlSize
    /\ dlCopy' = "await"
    /\ UNCHANGED <<dlTotal, dlSize, dlDone, dlPc, dlSent>>
    /\ UNCHANGED <<specVars, uiVars, askVars, guessVars>>

\* copy or flush fails: download returns the error and the progresser task
\* is dropped with it
DlCopyFails ==
    /\ dlCopy = "copy"
    /\ dlCopy' = "err"
    /\ dlPc' = IF dlPc = "poll" THEN "cancelled" ELSE dlPc
    /\ UNCHANGED <<dlTotal, dlSize, dlDone, dlSent>>
    /\ UNCHANGED <<specVars, uiVars, askVars, guessVars>>

\* one round of the progresser: sample, send, compare
DlPoll ==
    /\ dlPc = "poll"
    /\ Len(dlSent) < MaxSamples
    /\ LET progress == <<dlDone, dlTotal>>
       IN  /\ dlSent' = Append(dlSent, Shown(progress))
           /\ dlPc' = IF Stops(progress) THEN "stopped" ELSE "poll"
    /\ UNCHANGED <<dlTotal, dlSize, dlDone, dlCopy>>
    /\ UNCHANGED <<specVars, uiVars, askVars, guessVars>>

\* progresser.await: the progresser task has run to its end
PollerJoinedAlways == TRUE
PollerJoined == dlPc = "stopped"

\* progresser.await returns; download returns Ok
DlReturn ==
    /\ dlCopy = "await"
    /\ PollerJoined
    /\ dlCopy' = "ok"
    /\ UNCHANGED <<dlTotal, dlSize, dlDone, dlPc, dlSent>>
    /\ UNCHANGED <<specVars, uiVars, askVars, guessVars>>

\* the response has arrived, with or without a length; the progresser is
\* spawned and the copy starts
DlStarted ==
    /\ dlSize \in Sizes
    /\ dlTotal \in {0, dlSize}
    /\ dlDone = 0
    /\ dlCopy = "copy" /\ dlPc = "poll" /\ dlSent = <<>>

InitDl == SpecIdle /\ UiIdle /\ AskIdle /\ DlStarted /\ GuessIdle

NextDl == DlChunk \/ DlCopied \/ DlCopyFails \/ DlPoll \/ DlReturn

SpecDl == InitDl /\ [][NextDl]_vars

-----------------------------------------------------------------------------
(* Claims on SpecDl.                                                       *)

\* `current` never goes down from one Progress message to the next
CurrentNonDecreasing ==
    \A i, j \in 1..Len(dlSent) : i < j => dlSent[i].current <= dlSent[j].current

\* C10 as stated: current is non-decreasing and the progresser stops at
\* exactly the first message whose current equals its total: no earlier
\* message has current = total and none is sent after it.
C10_StopsAtFirstEqualShown ==
    /\ CurrentNonDecreasing
    /\ \A i \in 1..(Len(dlSent) - 1) : dlSent[i].current # dlSent[i].total
    /\ dlPc = "stopped" =>
         dlSent[Len(dlSent)].current = dlSent[Len(dlSent)].total

\* C10 as the program has it: current is non-decreasing and the progresser
\* stops at exactly the first message whose sample has transferred = total
\* in bytes: the last message of a stopped progresser shows current = total,
\* none is sent after it, and every message before the last came from a
\* sample with transferred # total, whatever it shows after the division.
C10_StopsAtFirstEqualSample ==
    /\ CurrentNonDecreasing
    /\ \A i \in 1..Len(dlSent) :
         /\ dlSent[i].current = dlSent[i].transferred \div Unit
         /\ dlSent[i].total = dlTotal \div Unit
    /\ \A i \in 1..(Len(dlSent) - 1) : dlSent[i].transferred # dlTotal
    /\ dlPc = "stopped" =>
         /\ dlSent # <<>>
         /\ dlSent[Len(dlSent)].transferred = dlTotal
         /\ dlSent[Len(dlSent)].current = dlSent[Len(dlSent)].total
    /\ (dlPc = "poll" /\ dlSent # <<>>) =>
         dlSent[Len(dlSent)].transferred # dlTotal

\* C10's case: the progresser has stopped after a run in which current grew
\* and an earlier message already showed current = total
C10_Witness ==
    /\ dlPc = "stopped"
    /\ Len(dlSent) = 3
    /\ dlSent[1].current < dlSent[3].current
    /\ dlSent[2].current = dlSent[2].total

\* C11: download returns Ok only after the copy has moved and flushed the
\* whole body and the progresser has left its loop; after a copy or flush
\* error download has returned the error and the progresser polls no more.
C11_ReturnsAfterBoth ==
    /\ dlCopy = "ok" => (dlDone = dlSize /\ dlPc = "stopped")
    /\ dlCopy = "err" => dlPc \in {"cancelled", "stopped"}
    /\ dlPc = "cancelled" => dlCopy = "err"

\* C11's case: a download that returned Ok after the copy moved the body in
\* more than one step and the progresser sent more than one message
C11_Witness ==
    /\ dlCopy = "ok"
    /\ Len(dlSent) >= 2
    /\ dlSent[1].transferred \notin {0, dlSize}

-----------------------------------------------------------------------------
(* SpecDlLive: SpecDl with the progresser running on after MaxSamples       *)
(* messages (they are sent and not recorded), every thread and task        *)
(* scheduled again and again.                                              *)

\* one round of the progresser after the recorded ones
DlPollOn ==
    /\ dlPc = "poll"
    /\ Len(dlSent) = MaxSamples
    /\ dlPc' = IF Stops(<<dlDone, dlTotal>>) THEN "stopped" ELSE "sleep"
    /\ UNCHANGED <<dlTotal, dlSize, dlDone, dlCopy, dlSent>>
    /\ UNCHANGED <<specVars, uiVars, askVars, guessVars>>

\* Timer::after(20 ms) of such a round is over
DlTimer ==
    /\ dlPc = "sleep"
    /\ dlPc' = "poll"
    /\ UNCHANGED <<dlTotal, dlSize, dlDone, dlCopy, dlSent>>
    /\ UNCHANGED <<specVars, uiVars, askVars, guessVars>>

NextDlLive ==
    \/ DlChunk \/ DlCopied \/ DlCopyFails
    \/ DlPoll \/ DlPollOn \/ DlTimer \/ DlReturn

SpecDlLive ==
    /\ InitDl
    /\ [][NextDlLive]_vars
    /\ WF_vars(DlChunk) /\ WF_vars(DlCopied) /\ WF_vars(DlPoll)
    /\ WF_vars(DlPollOn) /\ WF_vars(DlTimer) /\ WF_vars(DlReturn)

\* C12: once the copy has completed and been flushed, download eventually
\* returns Ok, whatever the progresser has sampled.
C12_CopiedLeadsToReturn == (dlCopy = "await") ~> (dlCopy = "ok")

-----------------------------------------------------------------------------
(* More claims on Spec.                                                    *)

\* C13: after any sequence of commands, a successful install with archive
\* kind None leaves at the destination exactly the bytes downloaded in this
\* install, with nothing left over from an earlier temporary file.
C13_NoneInstallExact ==
    (last.op = "install" /\ last.st = "ok" /\ last.kind = "None")
      => files[Bin(last.name)] = last.got

\* C14: a successful Tar install of a container with n >= 1 entries has
\* shown the entries of the downloaded container with the indices 0..n-1 in
\* container order, the index asked for is in [0, n), and the destination
\* holds the content of the entry at that index and nothing else.
C14_TarInstallPicks ==
    (last.op = "install" /\ last.st = "ok" /\ last.kind = "Tar")
      => LET c == TarEntries(last.got)
         IN  /\ last.listed = Listing(c)
             /\ last.pick < Len(c)
             /\ files[Bin(last.name)] = <<c[last.pick + 1]>>

\* the files Installer::install of package n reads and writes
PathsOf(n) == {Bin(n), Data(n), Tmp(n)}

\* C15: a bulk-update worker of a GitHub-origin package that resolves the
\* tag the package is recorded with downloads nothing and displaces nothing, and the package's registry entry (url, release, backup,
\* last_update) after the update is the entry from before it.
C15_SameTagNoChange ==
    \A n \in Names :
      wres[n].same =>
        /\ wres[n].moved = NoFile
        /\ \A p \in PathsOf(n) : files[p] = last.pre[1][p]
        /\ wres[n].pkg = Entry(last.pre[2], n)
        /\ Entry(config, n) = Entry(last.pre[2], n)
        /\ last.st = "ok" => Entry(packages, n) = Entry(last.pre[2], n)

\* C15's case: an update has returned and saved the registry; a worker had
\* found its package, which has a backup, at the latest release
C15_Witness ==
    /\ last.op = "update" /\ last.st = "ok"
    /\ \E n \in Names :
         /\ wres[n].same
         /\ Entry(config, n).installer.backup # NoPath
         /\ Entry(config, n).release.kind = "version"

\* the workers BSPM::update has spawned, and those it has joined
SpawnedNames == {n \in Names : wpc[n] # "none"}
JoinedNames  == SpawnedNames \ Range(handles)

C17_BackupRecordedExists ==
    \A i \in 1..Len(config) :
      config[i].installer.backup # NoPath
        => Exists(files, config[i].installer.backup)

\* a list without its entries of one name
Without(pkgs, name) == SelectSeq(pkgs, LAMBDA p : p.name # name)

\* C19: delete(name) of an installed package removes the recorded backup
\* file and the destination file, removes exactly that entry from the
\* registry and saves it; when removing a file fails the error propagates and
\* the saved registry is the one from before, entry included; for a name
\* that is not in the registry neither the registry nor a file changes.
C19_Delete ==
    last.op = "delete" =>
      LET before == last.pre[2]
          known  == Has(before, last.name)
      IN  /\ last.st = "absent" <=> ~known
          /\ last.st = "absent" => (config = before /\ files = last.pre[1])
          /\ last.st = "ok" =>
               LET inst == Entry(before, last.name).installer
               IN  /\ ~Exists(files, inst.path)
                   /\ inst.backup # NoPath => ~Exists(files, inst.backup)
                   /\ \A p \in DOMAIN files :
                        p \notin {inst.path, inst.backup}
                          => files[p] = last.pre[1][p]
                   /\ config = Without(before, last.name)
                   /\ Len(config) = Len(before) - 1
                   /\ mainPc # "failed"
          /\ last.st = "err" =>
               /\ mainPc = "failed"
               /\ config = before
               /\ Has(config, last.name)

\* C19's cases: a delete has removed a destination and a recorded backup
\* that were both there, with another package left in the registry
C19_Witness ==
    /\ last.op = "delete" /\ last.st = "ok"
    /\ LET inst == Entry(last.pre[2], last.name).installer
       IN  /\ inst.backup # NoPath
           /\ Exists(last.pre[1], inst.backup)
           /\ Exists(last.pre[1], inst.path)
    /\ config # <<>>

-----------------------------------------------------------------------------
(* SpecGuess: the format inference at the head of Installer::install, on    *)
(* any Installer.                                                           *)

MaxExt == 2        \* '.'-separated segments at the end of a URL

\* what a segment at the end of a URL can be: the ones the code looks for
\* and two it does not
Segments == {"tar", "gz", "tgz", "bz", "bz2", "tbz", "xz", "txz", "zip",
             "tbz2"}

RECURSIVE Exts(_)
Exts(n) ==
    IF n = 0 THEN {<<>>}
    ELSE Exts(n - 1) \cup {Append(e, g) : e \in Exts(n - 1), g \in Segments}

\* Option<Archived>, Option<Compression>
ArchiveOpts     == {NoneOpt, "None", "Tar"}
CompressionOpts == {NoneOpt, "None", "Gzip", "Bzip2", "Xz"}

Installers ==
    [url : {[parts |-> 4, ext |-> e] : e \in Exts(MaxExt)},
     archive : ArchiveOpts, compression : CompressionOpts]

\* Installer::install: let archive = self.guess_archive();
GuessArchiveStep ==
    /\ gPc = "install"
    /\ gArchive' = GuessArchive(gInst)
    /\ gPc' = "archive"
    /\ UNCHANGED <<gInst, gCompression, gArgs>>
    /\ UNCHANGED <<specVars, uiVars, askVars, dlVars>>

\* Installer::install: let compression = self.guess_compression();
GuessCompressionStep ==
    /\ gPc = "archive"
    /\ gCompression' = GuessCompression(gInst)
    /\ gPc' = "guessed"
    /\ UNCHANGED <<gInst, gArchive, gArgs>>
    /\ UNCHANGED <<specVars, uiVars, askVars, dlVars>>

GuessStarted ==
    /\ gPc = "install" /\ gInst \in Installers
    /\ gArchive = NoneOpt /\ gCompression = NoneOpt
    /\ gArgs = [compression |-> NoneOpt, archive |-> NoneOpt]

InitGuess == SpecIdle /\ UiIdle /\ AskIdle /\ DlIdle /\ GuessStarted

NextGuess == GuessArchiveStep \/ GuessCompressionStep

SpecGuess == InitGuess /\ [][NextGuess]_vars

\* the last segment of a URL's suffix and the one before it
Last1(ext) == IF Len(ext) >= 1 THEN ext[Len(ext)] ELSE ""
Last2(ext) == IF Len(ext) >= 2 THEN ext[Len(ext) - 1] ELSE ""

\* the formats by suffix, as <<archive, compression>>
BySuffix(ext) ==
    LET l == Last1(ext)
        tar == Last2(ext) = "tar"
    IN  IF (tar /\ l = "gz") \/ l = "tgz" THEN <<"Tar", "Gzip">>
        ELSE IF (tar /\ l \in {"bz", "bz2"}) \/ l = "tbz"
        THEN <<"Tar", "Bzip2">>
        ELSE IF (tar /\ l = "xz") \/ l = "txz" THEN <<"Tar", "Xz">>
        ELSE IF l = "tar" THEN <<"Tar", "None">>
        ELSE IF l = "gz" THEN <<"None", "Gzip">>
        ELSE IF l \in {"bz", "bz2"} THEN <<"None", "Bzip2">>
        ELSE IF l = "xz" THEN <<"None", "Xz">>
        ELSE <<"None", "None">>

\* C18: an archive kind or a compression that is given is used as it is;
\* one that is not given is inferred from the end of the URL: .tar.gz and
\* .tgz are Tar with Gzip, .tar.bz, .tar.bz2 and .tbz Tar with Bzip2, .tar.xz
\* and .txz Tar with Xz, .tar Tar with no compression, a bare .gz, .bz, .bz2
\* or .xz no archive with that compression, everything else neither.
C18_FormatInference ==
    gPc = "guessed" =>
      /\ gArchive = IF gInst.archive # NoneOpt THEN gInst.archive
                    ELSE BySuffix(gInst.url.ext)[1]
      /\ gCompression = IF gInst.compression # NoneOpt
                        THEN gInst.compression
                        ELSE BySuffix(gInst.url.ext)[2]

\* C18's case: both formats guessed for a URL that ends in .tbz
C18_Witness ==
    /\ gPc = "guessed"
    /\ gInst.archive = NoneOpt /\ gInst.compression = NoneOpt
    /\ gInst.url.ext = <<"zip", "tbz">>
    /\ gArchive = "Tar" /\ gCompression = "Bzip2"

-----------------------------------------------------------------------------
(* SpecAskLive: ask_number with its loop left to run on: the task does not *)
(* stop while it has a step to take.                                        *)

\* self.ask(msg) once more, past the asks that are counted
AnAskOn ==
    /\ anPc = "call"
    /\ anAsks = MaxAsks
    /\ anPc' = "wait"
    /\ UNCHANGED <<anMin, anMax, anLine, anRet, anAsks, anNotes, anBad>>
    /\ UNCHANGED <<specVars, uiVars, dlVars, guessVars>>

NextAskLive == AnAsk \/ AnAskOn \/ AnAnswer \/ AnAskFails \/ AnNotify

SpecAskLive == InitAsk /\ [][NextAskLive]_vars /\ WF_vars(NextAskLive)

\* C20: ask_number over no index at all (0 entries of a Tar container, or 0
\* assets of a release: min = 0, max = 0) ends, with a failure for the caller.
C20_NoIndexFails ==
    (anPc = "call" /\ anMin = 0 /\ anMax = 0) ~> (anPc = "failed")

-----------------------------------------------------------------------------
(* More claims on SpecUI.                                                  *)

\* the render task has taken a Question and not finished with it
QuestionInHand == ucur # <<>> /\ ucur[1].kind = "Question"

\* C21: while the render task handles a Question it takes no other message
\* out of the queue until it has read a line and put it in the answer
\* channel; each Question it consumes puts exactly one answer there, an
\* answer is put there for nothing else, and every ask call receives an
\* answer (none returns the receive error).
C21_OneAnswerPerAsk ==
    /\ [][/\ QuestionInHand => (uq' = uq \/ Len(uq') > Len(uq))
          /\ (QuestionInHand /\ ucur' # ucur)
               => (Len(uans') = Len(uans) + 1 /\ upc = "answer")
          /\ Len(uans') > Len(uans)
               => /\ QuestionInHand /\ upc = "answer"
                  /\ uans' = Append(uans, [line |-> uline[1].line,
                                           prompt |-> ucur[1].from])]_vars
    /\ [](\A h \in Handles : hgot[h] # RecvError)

\* the Progress messages the render task has applied to the bars, in order:
\* those it has finished and the one whose redraw failed
IsProgress(m) == m.kind = "Progress"
ProgressSeen ==
    SelectSeq(processed, IsProgress)
      \o (IF upc = "failed" THEN SelectSeq(ucur, IsProgress) ELSE <<>>)

\* the position of the last message with label l, 0 if there is none
LastWith(seq, l) ==
    LET at == {i \in 1..Len(seq) : seq[i].label = l}
    IN  IF at = {} THEN 0 ELSE CHOOSE i \in at : \A j \in at : j <= i

\* C22: after any sequence of Progress messages from any senders the bars
\* are exactly the labels seen in those messages, and the bar of a label shows
\* the current value of the latest message with that label, whoever sent it.
C22_BarsFollowLabels ==
    \A k \in Keys :
      LET i == LastWith(ProgressSeen, k)
      IN  IF i = 0 THEN bars[k] = NoBar
          ELSE bars[k] = [cur |-> ProgressSeen[i].cur, total |-> Total]

\* C22's case: two senders have reported on one label with different values,
\* and the bar shows the later one
C22_Witness ==
    /\ Len(ProgressSeen) >= 2
    /\ ProgressSeen[1].label = ProgressSeen[2].label
    /\ ProgressSeen[1].from # ProgressSeen[2].from
    /\ ProgressSeen[1].cur # ProgressSeen[2].cur
    /\ bars[ProgressSeen[2].label].cur = ProgressSeen[2].cur
    /\ upc = "recv"

-----------------------------------------------------------------------------
(* More claims on Spec: steps.                                             *)

\* the step is a successful `install n`, a successful `revert n` with a
\* backup, or the worker of n installing a release
InstallStep(n) ==
    /\ ncmd' = ncmd + 1
    /\ last'.op = "install" /\ last'.name = n /\ last'.st = "ok"
RevertStep(n) ==
    /\ ncmd' = ncmd + 1
    /\ last'.op = "revert" /\ last'.name = n /\ last'.st = "ok"
WorkerInstallStep(n) ==
    /\ wpc[n] = "begin" /\ wpc'[n] = "quit_send"
    /\ ~wres'[n].same

\* C23: a package has one backup path.  An install or update that finds the
\* destination present moves it to that path, over whatever an earlier
\* overwrite left there, so the backup holds the file displaced last; a
\* revert restores that file, after which no backup is left.
C23_OneBackup ==
    [][\A n \in Names :
         /\ ((InstallStep(n) \/ WorkerInstallStep(n)) /\ Exists(files, Bin(n)))
              => /\ files'[Data(n)] = files[Bin(n)]
                 /\ Exists(files', Bin(n))
         /\ (InstallStep(n) /\ Exists(files, Bin(n)))
              => Entry(config', n).installer.backup = Data(n)
         /\ (WorkerInstallStep(n) /\ Exists(files, Bin(n)))
              => wres'[n].pkg.installer.backup = Data(n)
         /\ RevertStep(n)
              => /\ Entry(config, n).installer.backup = Data(n)
                 /\ files'[Bin(n)] = files[Data(n)]
                 /\ ~Exists(files', Data(n))
                 /\ Entry(config', n).installer.backup = NoPath]_vars

\* C23's case: the file that was at a's destination before bspm is gone for
\* good (it was the backup when a was overwritten again), and a revert has
\* restored the file the first overwrite installed
C23_Witness ==
    /\ last.op = "revert" /\ last.st = "ok" /\ last.name = "a"
    /\ last.prev # NoFile
    /\ files[Bin("a")] = last.prev
    /\ last.pre[1][Bin("a")] # Foreign
    /\ \A p \in Paths : files[p] # Foreign /\ last.pre[1][p] # Foreign

-----------------------------------------------------------------------------
(* SpecLoaded: bulk updates of a registry as BSPM::new reads it from the    *)
(* config file, whose entries need not be ones this program wrote: a        *)
(* package with a GitHub origin may have a release that is no version tag. *)

\* an entry of the file: installed from a GitHub repository, with a backup
FromFile(name, release) ==
    [name |-> name,
     installer |-> [url |-> UrlBin, path |-> Bin(name), archive |-> NoneOpt,
                    backup |-> Data(name)],
     release |-> release, last_update |-> NoTime, github |-> Slug]

\* a: release missing or a date; b: as Package::install records it
Registries ==
    {<<>>, <<FromFile("b", Version("v1"))>>}
      \cup UNION { { <<FromFile("a", r)>>,
                     <<FromFile("a", r), FromFile("b", Version("v1"))>>,
                     <<FromFile("b", Version("v1")), FromFile("a", r)>> } :
                   r \in {NoRelease, Dated(0)} }

\* BSPM::new has not run yet; the files of the registry's packages are there
RegistryLoaded ==
    /\ config \in Registries
    /\ files = [p \in Paths |->
                  IF p[1] \in {"bin", "data"} /\ Has(config, p[2])
                  THEN Foreign ELSE NoFile]
    /\ ncmd = 0
    /\ mainPc = "idle"
    /\ packages = <<>>
    /\ handles = <<>>
    /\ wpc = [n \in Names |-> "none"]
    /\ wres = [n \in Names |-> NoWres]
    /\ queue = <<>>
    /\ apc = "run"
    /\ acks = {}
    /\ quitLog = <<>>
    /\ last = Did("none", "", "none")

InitLoaded == RegistryLoaded /\ UiIdle /\ AskIdle /\ DlIdle /\ GuessIdle

NextLoaded ==
    \/ UpdateCmd
    \/ \E n \in Names : WBody(n)
    \/ \E n \in Names : WFailNotify(n)
    \/ \E n \in Names : WQuitSend(n)
    \/ \E n \in Names : WQuitAck(n)
    \/ Join
    \/ UpdFinish
    \/ ActorRecv
    \/ ActorDrop
    \/ DriverQuitSend
    \/ DriverQuitAck

SpecLoaded == InitLoaded /\ [][NextLoaded]_vars

\* a package with a GitHub origin whose release is no version tag
Corrupted(pkg) == pkg.github # NoUrl /\ pkg.release.kind # "version"

\* the worker of n has run Package::update
HasRun(n) == wpc[n] \in {"fail_notify", "quit_send", "quit_wait", "done"}

\* C24, its own worker: the worker of such a package fails, having asked
\* GitHub nothing and touched no file, and the package's entry stays as it was
CorruptedFailsClean ==
    \A n \in Names :
      (last.op = "update" /\ last.pre # <<>> /\ Has(last.pre[2], n)
        /\ Corrupted(Entry(last.pre[2], n)))
        => /\ HasRun(n) => (wres[n].st = "err" /\ wres[n].moved = NoFile)
           /\ wpc[n] # "none" => \A p \in PathsOf(n) : files[p] = last.pre[1][p]
           /\ Entry(packages, n) = Entry(last.pre[2], n)
           /\ Entry(config, n) = Entry(last.pre[2], n)

\* C24: the worker of a package with a GitHub origin and a release that is
\* no version tag fails before any release resolution, download or file
\* displacement, its registry entry is unchanged, and the other workers run
\* to their own outcome.
C24_CorruptedFailsAlone ==
    /\ CorruptedFailsClean
    /\ \A n \in Names :
         (last.op = "update" /\ last.pre # <<>> /\ Has(last.pre[2], n)
           /\ Corrupted(Entry(last.pre[2], n)) /\ HasRun(n))
           => \A m \in Names \ {n} : wpc[m] # "panicked"

-----------------------------------------------------------------------------
(* More claims on Spec: the frame of a bulk update.                         *)

NamesIn(pkgs) == {pkgs[i].name : i \in 1..Len(pkgs)}

\* the packages a bulk update of pkgs with the names req is to work on
Requested(pkgs, req) == {n \in NamesIn(pkgs) : n \in req \/ req = {}}

\* BSPM::update returns
UpdReturns == mainPc = "join" /\ mainPc' = "quit_send"

\* C25: a bulk update spawns one worker for each registry package whose
\* name is requested (for every package when no name is requested) and no
\* other; when it returns the registry holds the same names as before, each
\* entry with its name and destination path, and the entries that had no
\* worker are the same in every field.
C25_UpdateFrame ==
    [][/\ \A req \in SUBSET Names :
            (UpdStart(req) /\ config # <<>>)
              => /\ SpawnedNames' = Requested(config, req)
                 /\ Len(handles') = Cardinality(Requested(config, req))
                 /\ Range(handles') = Requested(config, req)
       /\ (UpdReturns /\ last.pre # <<>>)
            => /\ NamesIn(config') = NamesIn(last.pre[2])
               /\ Len(config') = Len(last.pre[2])
               /\ \A n \in NamesIn(config') :
                    /\ Entry(config', n).name = n
                    /\ Entry(config', n).installer.path
                         = Entry(last.pre[2], n).installer.path
                    /\ n \notin SpawnedNames
                         => Entry(config', n) = Entry(last.pre[2], n)]_vars

\* the update of a alone, in a registry that also holds b, has returned
\* with a new entry for a
C25_Witness ==
    /\ last.op = "update" /\ last.st = "ok" /\ last.pre # <<>>
    /\ SpawnedNames = {"a"}
    /\ NamesIn(config) = {"a", "b"}
    /\ Entry(config, "a") # Entry(last.pre[2], "a")
    /\ Entry(config, "b") = Entry(last.pre[2], "b")

-----------------------------------------------------------------------------
(* SpecArgs: `install <name> <url> [-c <compression>] [-a <archive>]`: the  *)
(* two options are parsed from their strings, and Installer::install then   *)
(* infers what was not given.                                               *)

ParseErr == "Err"

\* impl FromStr for Compression
CompressionFromStr(s) ==
    CASE s = "gzip"  -> "Gzip"
      [] s = "bzip2" -> "Gzip"
      [] s = "xz"    -> "Gzip"
      [] s = "none"  -> "None"
      [] OTHER       -> ParseErr

\* impl FromStr for Archived
ArchivedFromStr(s) ==
    CASE s = "tar"  -> "Tar"
      [] s = "none" -> "None"
      [] OTHER      -> ParseErr

\* an Option<T> argument: absent, or parsed from its string
Parsed(arg, v) == IF arg = NoneOpt THEN NoneOpt ELSE v

\* what may be typed after -c and -a: the variants, and strings that are none
CompressionArgs == {NoneOpt, "gzip", "bzip2", "xz", "none", "Gzip", "zip"}
ArchiveArgs     == {NoneOpt, "tar", "none", "zip"}

\* Opt::from_args, and bspm.install building the Installer
ParseArgs ==
    /\ gPc = "args"
    /\ LET c == Parsed(gArgs.compression, CompressionFromStr(gArgs.compression))
           a == Parsed(gArgs.archive, ArchivedFromStr(gArgs.archive))
       IN  IF c = ParseErr \/ a = ParseErr
           THEN gPc' = "usage" /\ UNCHANGED gInst
           ELSE /\ gPc' = "install"
                /\ gInst' = [gInst EXCEPT !.archive = a, !.compression = c]
    /\ UNCHANGED <<gArchive, gCompression, gArgs>>
    /\ UNCHANGED <<specVars, uiVars, askVars, dlVars>>

ArgsGiven ==
    /\ gPc = "args"
    /\ gArgs \in [compression : CompressionArgs, archive : ArchiveArgs]
    /\ gInst \in [url : {[parts |-> 4, ext |-> e] : e \in Exts(1)},
                  archive : {NoneOpt}, compression : {NoneOpt}]
    /\ gArchive = NoneOpt /\ gCompression = NoneOpt

InitArgs == SpecIdle /\ UiIdle /\ AskIdle /\ DlIdle /\ ArgsGiven

NextArgs == ParseArgs \/ GuessArchiveStep \/ GuessCompressionStep

SpecArgs == InitArgs /\ [][NextArgs]_vars

\* the variant each string names (Compression::variants, and the enum)
VariantNamed(s) ==
    CASE s = "gzip"  -> "Gzip"
      [] s = "bzip2" -> "Bzip2"
      [] s = "xz"    -> "Xz"
      [] s = "none"  -> "None"
      [] OTHER       -> ParseErr

\* C26: parsing a compression from its string gives "gzip" Gzip, "bzip2"
\* Bzip2, "xz" Xz and "none" None, each its own variant, and every other
\* string an error.
C26_CompressionParsed ==
    (gPc \notin {"args", "off"} /\ gArgs.compression # NoneOpt) =>
      IF VariantNamed(gArgs.compression) = ParseErr
      THEN gPc = "usage"
      ELSE gPc = "usage"
             \/ gInst.compression = VariantNamed(gArgs.compression)

-----------------------------------------------------------------------------
(* More claims on Spec: the end of a bulk update.                           *)

\* a bulk update of a registry with packages in which no Package::update
\* has failed
AllSucceed ==
    /\ last.op = "update" /\ last.pre # <<>>
    /\ \A n \in SpawnedNames : wres[n].st \in {"none", "ok"}

\* C27: a bulk update of a non-empty registry whose workers all succeed ends
\* normally: no send of a worker or of the driver finds the channel closed
\* (nobody panics on 'internal channel error'), and the driver's final Quit
\* is taken by the render task, which acknowledges it.
C27_UpdateEndsNormally ==
    AllSucceed =>
      /\ \A n \in Names : wpc[n] # "panicked"
      /\ mainPc # "panicked"
      /\ mainPc = "quit_wait" => ("main" \in acks \/ apc = "run")

-----------------------------------------------------------------------------
(* More claims on Spec: a failed install.                                   *)

\* BSPM::install of n has failed; a worker's Package::update of n has failed
InstallFails(n) ==
    ncmd' = ncmd + 1 /\ last'.op = "install" /\ last'.name = n
      /\ last'.st = "err"
UpdateFails(n) ==
    wpc[n] = "begin" /\ wpc'[n] = "fail_notify" /\ wres'[n].st = "err"

\* C28: an install or update that fails, at whatever step, of a package
\* whose destination file exists leaves that file in place with the bytes
\* it had.
C28_FailureKeepsDest ==
    [][\A n \in Names :
         ((InstallFails(n) \/ UpdateFails(n)) /\ Exists(files, Bin(n)))
           => files'[Bin(n)] = files[Bin(n)]]_vars

\* C28, the download alone: a failure of the download leaves the file
DownloadFailureKeepsDest ==
    [][\A n \in Names :
         (InstallFails(n) /\ Exists(files, Bin(n)) /\ last'.kind # "Tar")
           => files'[Bin(n)] = files[Bin(n)]]_vars

-----------------------------------------------------------------------------
(* More claims on SpecUI: the redraw.                                       *)

\* bars.len()
NumberOfBars == Cardinality({k \in Keys : bars[k] # NoBar})

\* C29: in the redraw terminal_height - (number_of_bars + 2) does not go
\* below zero: number_of_bars + 2 <= terminal_height in every reachable
\* state, and the render task does not fail as the bars grow in number.
C29_RedrawNoUnderflow ==
    /\ NumberOfBars + 2 <= TermHeight
    /\ upc # "failed"

=============================================================================
